---- MODULE Spec2Model ----
(***************************************************************************)
(* ProtocolManager of ytmdesktop (src/main/services/protocolmanager):      *)
(* the ytmd-app:// resource router with its safe-path guard, and the       *)
(* ytmd:// deep-link dispatcher.                                           *)
(*                                                                         *)
(* Strings are sequences of symbols.  A symbol is one character ("/",      *)
(* "\\", ".") or an atom standing for a fixed non-empty run of letters     *)
(* ("assets", "play", "index", ...); distinct symbol sequences denote      *)
(* distinct strings.  Every string operation below works symbol by symbol, *)
(* as the JavaScript operation works character by character.               *)
(* node:path is modelled as path.posix (Linux and macOS builds).           *)
(***************************************************************************)
EXTENDS Naturals, Sequences, FiniteSets

VARIABLES
    resourcesPath,      \* process.resourcesPath
    initialized,        \* ProtocolManager._initialized
    handleCalls,        \* number of protocol.handle("ytmd-app", ...) registrations
    isDefaultClient,    \* app.isDefaultProtocolClient("ytmd") (state of the OS)
    setDefaultCalls,    \* number of app.setAsDefaultProtocolClient calls
    initThrew,          \* TRUE iff the last onInitialized call threw
    arg,                \* the input drawn for the single-call specifications
    guardOut,           \* <<>> or <<b>>: the result of the isSafePath call on arg
    req,                \* the last ytmd-app request handled and its outcome
    uiInitialized,      \* YTMViewManager.isInitialized()
    uiReady,            \* TRUE once the promise of YTMViewManager.ready() resolves
    dispatches,         \* the handleYTMDProtocol calls made so far, in call order
    sent                \* the webContents.send calls made so far, in order

lifeVars == <<initialized, handleCalls, isDefaultClient, setDefaultCalls, initThrew>>
uiVars == <<uiInitialized, uiReady>>
linkVars == <<dispatches, sent>>
vars == <<resourcesPath, lifeVars, arg, guardOut, req, uiVars, linkVars>>

----------------------------------------------------------------------------
(* Bounds of the model *)

MaxPathLen == 5
MaxCandLen == 5
MaxRootDepth == 2
MaxUrlLen == 5
MaxDispatches == 2

----------------------------------------------------------------------------
(* Strings *)

Seqs(S, n) == UNION {[1..k -> S] : k \in 0..n}

Drop(s, n) == SubSeq(s, n + 1, Len(s))

StartsWith(s, lit) == Len(s) >= Len(lit) /\ SubSeq(s, 1, Len(lit)) = lit

IsSuffix(t, s) == Len(t) <= Len(s) /\ Drop(s, Len(s) - Len(t)) = t

\* the character class [/\\] of both regular expressions
IsSep(c) == c \in {"/", "\\"}

\* the length of the longest prefix of s matching [/\\]*
RECURSIVE LeadingSeps(_)
LeadingSeps(s) ==
    IF s # <<>> /\ IsSep(Head(s)) THEN 1 + LeadingSeps(Tail(s)) ELSE 0

\* s.split(c) for a one-symbol separator c
RECURSIVE Split(_, _)
Split(s, c) ==
    IF \A i \in 1..Len(s) : s[i] # c
    THEN <<s>>
    ELSE LET i == CHOOSE k \in 1..Len(s) :
                      s[k] = c /\ \A j \in 1..(k - 1) : s[j] # c
         IN  <<SubSeq(s, 1, i - 1)>> \o Split(Drop(s, i), c)

\* segs.join(c)
RECURSIVE Join(_, _)
Join(segs, c) ==
    IF segs = <<>> THEN <<>>
    ELSE IF Len(segs) = 1 THEN segs[1]
    ELSE segs[1] \o <<c>> \o Join(Tail(segs), c)

----------------------------------------------------------------------------
(* node:path (posix) as isSafePath and handleYTMDAppProtocol use it *)

undefined == <<"undefined">>

DotDot == <<".", ".">>

\* normalizeString of an absolute path: "" and "." segments vanish, ".."
\* removes the segment before it and is dropped at the root
RECURSIVE Normalize(_, _)
Normalize(segs, acc) ==
    IF segs = <<>> THEN acc
    ELSE LET h == Head(segs) IN
         IF h = <<>> \/ h = <<".">> THEN Normalize(Tail(segs), acc)
         ELSE IF h = DotDot
              THEN Normalize(Tail(segs),
                             IF acc = <<>> THEN acc ELSE SubSeq(acc, 1, Len(acc) - 1))
              ELSE Normalize(Tail(segs), Append(acc, h))

PathIsAbsolute(p) == p # <<>> /\ Head(p) = "/"

\* the segments of path.resolve(from, to), from an absolute path
ResolveSegs(from, to) ==
    IF PathIsAbsolute(to)
    THEN Normalize(Split(to, "/"), <<>>)
    ELSE Normalize(Split(from, "/") \o Split(to, "/"), <<>>)

\* path.resolve(from, to)
PathResolve(from, to) == <<"/">> \o Join(ResolveSegs(from, to), "/")

RECURSIVE CommonLen(_, _)
CommonLen(a, b) ==
    IF a # <<>> /\ b # <<>> /\ Head(a) = Head(b)
    THEN 1 + CommonLen(Tail(a), Tail(b))
    ELSE 0

\* path.relative(from, to), both absolute
PathRelative(from, to) ==
    LET fs == ResolveSegs(from, <<>>)
        ts == ResolveSegs(to, <<>>)
        k  == CommonLen(fs, ts)
    IN  Join([i \in 1..(Len(fs) - k) |-> DotDot] \o Drop(ts, k), "/")

----------------------------------------------------------------------------
(* isSafePath *)

\* a plausible slip: the ".." test is left out
isSafePath_noDotDot(rootPath, requestedPath) ==
    LET pathToServe  == PathResolve(rootPath, requestedPath)
        relativePath == PathRelative(rootPath, pathToServe)
    IN  /\ relativePath # <<>>
        /\ ~PathIsAbsolute(relativePath)

\* a plausible slip: the test for an empty relative path is left out
isSafePath_allowEmpty(rootPath, requestedPath) ==
    LET pathToServe  == PathResolve(rootPath, requestedPath)
        relativePath == PathRelative(rootPath, pathToServe)
    IN  /\ ~StartsWith(relativePath, DotDot)
        /\ ~PathIsAbsolute(relativePath)

isSafePath(rootPath, requestedPath) ==
    LET pathToServe  == PathResolve(rootPath, requestedPath)
        relativePath == PathRelative(rootPath, pathToServe)
    IN  /\ relativePath # <<>>
        /\ ~StartsWith(relativePath, DotDot)
        /\ ~PathIsAbsolute(relativePath)

\* path.resolve(undefined, ...) and path.relative(undefined, ...) throw a
\* TypeError (ERR_INVALID_ARG_TYPE): isSafePath throws iff rootPath is undefined
isSafePathThrows(rootPath, requestedPath) == rootPath = undefined

----------------------------------------------------------------------------
(* handleYTMDAppProtocol *)

Hosts == {"updater", "main", "titlebar", "settings"}

\* `app.asar/.vite/renderer/windows/<name>`
BundleDir(name) ==
    <<"app", ".", "asar", "/", ".", "vite", "/", "renderer", "/", "windows", "/", name>>

\* `app.asar/.vite/renderer/assets`
AssetsDir == <<"app", ".", "asar", "/", ".", "vite", "/", "renderer", "/", "assets">>

IndexPath == <<"/", "index", ".", "html">>

\* a plausible slip: the host switch has a case for the shared assets directory
hostRootPath_assetsHost(host) ==
    IF host \in Hosts THEN PathResolve(resourcesPath, BundleDir(host))
    ELSE IF host = "assets" THEN PathResolve(resourcesPath, AssetsDir)
    ELSE undefined

\* switch (host): the bundle root of a recognized host, else undefined
hostRootPath(host) ==
    IF host \in Hosts THEN PathResolve(resourcesPath, BundleDir(host)) ELSE undefined

assetsRootPath == PathResolve(resourcesPath, AssetsDir)

\* a plausible slip: every pathname made of separators alone gets the index
indexDefault_anySeps(pathname) ==
    IF LeadingSeps(pathname) = Len(pathname) THEN IndexPath ELSE pathname

\* if (pathname === "/") desiredPath = "/index.html"
indexDefault(pathname) == IF pathname = <<"/">> THEN IndexPath ELSE pathname

\* the length of the longest prefix of s matching (assets[/\\]+)*
RECURSIVE AssetsRun(_)
AssetsRun(s) ==
    IF StartsWith(s, <<"assets">>) /\ LeadingSeps(Tail(s)) > 0
    THEN LET k == 1 + LeadingSeps(Tail(s)) IN k + AssetsRun(Drop(s, k))
    ELSE 0

\* a plausible slip: the group is not repeated, /^[/\\]+assets[/\\]+/
assetsRegex_once(s) ==
    LET n == LeadingSeps(s)
        t == Drop(s, n)
    IN  IF n > 0 /\ StartsWith(t, <<"assets">>) /\ LeadingSeps(Tail(t)) > 0
        THEN n + 1 + LeadingSeps(Tail(t))
        ELSE 0

\* the length of the match of /^[/\\]+(assets[/\\]+)+/ in s, 0 when there is none
assetsRegex(s) ==
    LET n == LeadingSeps(s)
        m == AssetsRun(Drop(s, n))
    IN  IF n > 0 /\ m > 0 THEN n + m ELSE 0

\* desiredPath.replace(/^[/\\]+/, "")
stripLeadingSeps(s) == Drop(s, LeadingSeps(s))

\* pathToFileURL(p).toString() of an absolute posix path: a backslash is
\* percent-encoded
pathToFileURL(p) ==
    <<"file", "://">> \o [i \in 1..Len(p) |-> IF p[i] = "\\" THEN "%5C" ELSE p[i]]

\* the local path net.fetch reads for a file: URL
fileURLToPath(u) ==
    LET q == Drop(u, 2) IN [i \in 1..Len(q) |-> IF q[i] = "%5C" THEN "\\" ELSE q[i]]

NoReq == [outcome |-> "none"]

\* the outcome of one request: "throw" (the handler's promise rejects),
\* "response" (the Policy Violation response) or "fetch" (net.fetch(fileUrlPath))
routeRequest(host, pathname) ==
    LET indexed     == indexDefault(pathname)
        matched     == assetsRegex(indexed)
        rootPath    == IF matched > 0 THEN assetsRootPath ELSE hostRootPath(host)
        desiredPath == stripLeadingSeps(Drop(indexed, matched))
        base        == [outcome |-> "none", host |-> host, pathname |-> pathname,
                        rootPath |-> rootPath, desiredPath |-> desiredPath,
                        status |-> 0, contentType |-> "", body |-> "",
                        fileUrlPath |-> <<>>, suspendedAtCall |-> 0]
    IN  IF isSafePathThrows(rootPath, desiredPath)
        THEN [base EXCEPT !.outcome = "throw"]
        ELSE IF ~isSafePath(rootPath, desiredPath)
        THEN [base EXCEPT !.outcome = "response", !.status = 403,
                          !.contentType = "text/html", !.body = "Policy Violation"]
        ELSE [base EXCEPT !.outcome = "fetch",
                          !.fileUrlPath =
                              pathToFileURL(PathResolve(rootPath, desiredPath))]

\* protocol.handle("ytmd-app", ...) is called in onInitialized: a request
\* reaches the handler only after it
\* (suspendedAtCall only observes how many deep-link dispatches were suspended
\* when the request was handled; the handler does not read it)
handleYTMDAppProtocol(host, pathname) ==
    /\ handleCalls > 0
    /\ req' = [routeRequest(host, pathname) EXCEPT
                  !.suspendedAtCall =
                      Cardinality({d \in 1..Len(dispatches) : dispatches[d].pc = "await"})]
    /\ UNCHANGED <<resourcesPath, lifeVars, arg, guardOut, uiVars, linkVars>>

----------------------------------------------------------------------------
(* onInitialized *)

\* a plausible slip: the state check is missing, so a second call registers again
onInitialized_noGuard(defaultApp, argc, registered) ==
    /\ initialized' = TRUE
    /\ initThrew' = FALSE
    /\ handleCalls' = handleCalls + 1
    /\ IF ~isDefaultClient /\ (~defaultApp \/ argc >= 2)
       THEN /\ isDefaultClient' = registered
            /\ setDefaultCalls' = setDefaultCalls + 1
       ELSE UNCHANGED <<isDefaultClient, setDefaultCalls>>
    /\ UNCHANGED <<resourcesPath, arg, guardOut, req, uiVars, linkVars>>

\* defaultApp is process.defaultApp, argc is process.argv.length, registered
\* is the result of app.setAsDefaultProtocolClient (the OS may refuse)
onInitialized(defaultApp, argc, registered) ==
    /\ IF initialized
       THEN /\ initThrew' = TRUE
            /\ UNCHANGED <<initialized, handleCalls, isDefaultClient, setDefaultCalls>>
       ELSE /\ initialized' = TRUE
            /\ initThrew' = FALSE
            /\ handleCalls' = handleCalls + 1
            /\ IF ~isDefaultClient /\ (~defaultApp \/ argc >= 2)
               THEN /\ isDefaultClient' = registered
                    /\ setDefaultCalls' = setDefaultCalls + 1
               ELSE UNCHANGED <<isDefaultClient, setDefaultCalls>>
    /\ UNCHANGED <<resourcesPath, arg, guardOut, req, uiVars, linkVars>>

onInitializedCall ==
    \E defaultApp \in BOOLEAN, argc \in {1, 2}, registered \in BOOLEAN :
        onInitialized(defaultApp, argc, registered)

----------------------------------------------------------------------------
(* The UI surface (YTMViewManager): initialized, then ready *)

uiInitialize ==
    /\ ~uiInitialized
    /\ uiInitialized' = TRUE
    /\ UNCHANGED <<resourcesPath, lifeVars, arg, guardOut, req, uiReady, linkVars>>

uiBecomeReady ==
    /\ uiInitialized /\ ~uiReady
    /\ uiReady' = TRUE
    /\ UNCHANGED <<resourcesPath, lifeVars, arg, guardOut, req, uiInitialized, linkVars>>

----------------------------------------------------------------------------
(* handleYTMDProtocol *)

\* a plausible slip: playlistId read from paths[1]
parseYTMD_playlistOffByOne(url) ==
    LET parts    == Split(url, "://")
        urlPaths == IF Len(parts) >= 2 THEN parts[2] ELSE undefined
        paths    == Split(urlPaths, "/")
    IN  IF urlPaths # undefined /\ urlPaths # <<>>
           /\ paths[1] = <<"play">> /\ Len(paths) >= 2
        THEN [play |-> TRUE, videoId |-> paths[2], playlistId |-> paths[2]]
        ELSE [play |-> FALSE, videoId |-> undefined, playlistId |-> undefined]

\* a plausible slip: the verb is not looked at
parseYTMD_anyVerb(url) ==
    LET parts    == Split(url, "://")
        urlPaths == IF Len(parts) >= 2 THEN parts[2] ELSE undefined
        paths    == Split(urlPaths, "/")
    IN  IF urlPaths # undefined /\ urlPaths # <<>> /\ Len(paths) >= 2
        THEN [play |-> TRUE, videoId |-> paths[2],
              playlistId |-> IF Len(paths) >= 3 THEN paths[3] ELSE undefined]
        ELSE [play |-> FALSE, videoId |-> undefined, playlistId |-> undefined]

\* lines 60-68: url.split("://")[1], its split on "/", the switch on paths[0]
\* and the length test; play is TRUE iff line 67 is reached
parseYTMD(url) ==
    LET parts    == Split(url, "://")
        urlPaths == IF Len(parts) >= 2 THEN parts[2] ELSE undefined
        paths    == Split(urlPaths, "/")
    IN  IF urlPaths # undefined /\ urlPaths # <<>>
           /\ paths[1] = <<"play">> /\ Len(paths) >= 2
        THEN [play |-> TRUE, videoId |-> paths[2],
              playlistId |-> IF Len(paths) >= 3 THEN paths[3] ELSE undefined]
        ELSE [play |-> FALSE, videoId |-> undefined, playlistId |-> undefined]

\* a plausible slip: the command is kept for later when the UI is not initialized
startDispatch_queue(url, inited, ready) ==
    LET parsed == parseYTMD(url)
    IN  [url |-> url, play |-> parsed.play,
         videoId |-> parsed.videoId, playlistId |-> parsed.playlistId,
         uiInitAtCall |-> inited, uiReadyAtCall |-> ready,
         sawInitialized |-> parsed.play /\ inited,
         pc |-> IF parsed.play THEN "await" ELSE "done"]

\* the call up to its first suspension: the dispatch suspended at
\* `await ytmViewManager.ready()` (pc = "await") or returned (pc = "done")
startDispatch(url, inited, ready) ==
    LET parsed == parseYTMD(url)
    IN  [url |-> url, play |-> parsed.play,
         videoId |-> parsed.videoId, playlistId |-> parsed.playlistId,
         uiInitAtCall |-> inited, uiReadyAtCall |-> ready,
         sawInitialized |-> parsed.play /\ inited,
         pc |-> IF parsed.play /\ inited THEN "await" ELSE "done"]

\* a plausible slip: a synchronous wait, no new dispatch runs while one waits
handleYTMDProtocol_blocking(url) ==
    /\ \A d \in 1..Len(dispatches) : dispatches[d].pc # "await"
    /\ dispatches' = Append(dispatches, startDispatch(url, uiInitialized, uiReady))
    /\ UNCHANGED <<resourcesPath, lifeVars, arg, guardOut, req, uiVars, sent>>

\* a plausible slip: a deep link also loads the main window's index through
\* the resource pipeline
handleYTMDProtocol_fetch(url) ==
    /\ dispatches' = Append(dispatches, startDispatch(url, uiInitialized, uiReady))
    /\ req' = routeRequest("main", <<"/">>)
    /\ UNCHANGED <<resourcesPath, lifeVars, arg, guardOut, uiVars, sent>>

handleYTMDProtocol(url) ==
    /\ dispatches' = Append(dispatches, startDispatch(url, uiInitialized, uiReady))
    /\ UNCHANGED <<resourcesPath, lifeVars, arg, guardOut, req, uiVars, sent>>

\* a plausible slip: the readiness wait is left out
canResume_noWait(d) == dispatches[d].pc = "await"

\* the continuation of `await ytmViewManager.ready()` runs once the promise
\* has resolved
canResume(d) == dispatches[d].pc = "await" /\ uiReady

\* a plausible slip: a timeout on the wait, after which the command is dropped
resumeDispatch_timeout(d) ==
    /\ dispatches[d].pc = "await"
    /\ dispatches' = [dispatches EXCEPT ![d].pc = "done"]
    /\ UNCHANGED <<resourcesPath, lifeVars, arg, guardOut, req, uiVars, sent>>

\* lines 73-78: webContents.send("remoteControl:execute", "navigate", {...})
resumeDispatch(d) ==
    /\ canResume(d)
    /\ sent' = Append(sent, [dispatch |-> d,
                             channel |-> "remoteControl:execute",
                             command |-> "navigate",
                             videoId |-> dispatches[d].videoId,
                             playlistId |-> dispatches[d].playlistId])
    /\ dispatches' = [dispatches EXCEPT ![d].pc = "done"]
    /\ UNCHANGED <<resourcesPath, lifeVars, arg, guardOut, req, uiVars>>

resumeSome == \E d \in 1..Len(dispatches) : resumeDispatch(d)

InitLinks ==
    /\ uiInitialized = FALSE
    /\ uiReady = FALSE
    /\ dispatches = <<>>
    /\ sent = <<>>

----------------------------------------------------------------------------
(* Inputs *)

ResourcesPaths == {<<"/">>, <<"/", "res">>}

NoArg == [kind |-> "none"]

InitLife ==
    /\ initialized = FALSE
    /\ handleCalls = 0
    /\ isDefaultClient \in BOOLEAN
    /\ setDefaultCalls = 0
    /\ initThrew = FALSE

----------------------------------------------------------------------------
(* SpecGuard: isSafePath applied to one (root, candidate) *)

RootNames == {"a", "etc", "secret"}

\* the absolute directories of depth <= MaxRootDepth
GuardRoots ==
    {<<"/">> \o Join(segs, "/") :
        segs \in Seqs({<<n>> : n \in RootNames}, MaxRootDepth)}

Cand_secret == <<".", ".", "/", "secret">>
Cand_passwd == <<".", ".", "/", ".", ".", "/", "etc", "/", "passwd">>
Cand_abs    == <<"/", "etc", "/", "passwd">>
TraversalCandidates == {Cand_secret, Cand_passwd, Cand_abs}

BenignCandidates ==
    { <<"index", ".", "html">>,
      <<"assets", "/", "app", ".", "js">>,
      <<"a", "/", "b", "/", "c", ".", "js">> }

GuardCandidates ==
    Seqs({"/", "\\", ".", "a"}, MaxCandLen) \cup TraversalCandidates \cup BenignCandidates

InitGuard ==
    /\ resourcesPath = <<"/", "res">>
    /\ InitLife
    /\ arg \in [kind : {"guard"}, root : GuardRoots, candidate : GuardCandidates]
    /\ guardOut = <<>>
    /\ req = NoReq
    /\ InitLinks

CallIsSafePath ==
    /\ guardOut = <<>>
    /\ guardOut' = <<isSafePath(arg.root, arg.candidate)>>
    /\ UNCHANGED <<resourcesPath, lifeVars, arg, req, uiVars, linkVars>>

NextGuard == CallIsSafePath

SpecGuard == InitGuard /\ [][NextGuard]_vars

----------------------------------------------------------------------------
(* SpecRouter: handleYTMDAppProtocol applied to one request *)

RouterHosts == Hosts \cup {"bogus", "assets"}

RouterPathnames ==
    Seqs({"/", "\\", ".", "assets", "a"}, MaxPathLen)
        \cup { IndexPath,
               <<"/", "assets", "/", "index", ".", "html">>,
               <<"/", "a", "/", ".", ".", "/", "a">>,
               <<"/", "assets", "/", ".", ".", "a">>,
               <<"/", "assets", "/", "x", ".", "js">>,
               <<"/", "assets", "/", "assets", "/", "x", ".", "js">> }

\* the state after the lifecycle host has called onInitialized once
InitLifeDone ==
    /\ initialized = TRUE
    /\ handleCalls = 1
    /\ isDefaultClient = TRUE
    /\ setDefaultCalls = 1
    /\ initThrew = FALSE

InitRouter ==
    /\ resourcesPath \in ResourcesPaths
    /\ InitLifeDone
    /\ arg \in [kind : {"request"}, host : RouterHosts, pathname : RouterPathnames]
    /\ guardOut = <<>>
    /\ req = NoReq
    /\ InitLinks

HandleArg ==
    /\ req = NoReq
    /\ handleYTMDAppProtocol(arg.host, arg.pathname)

NextRouter == HandleArg

SpecRouter == InitRouter /\ [][NextRouter]_vars

----------------------------------------------------------------------------
(* SpecLinks: handleYTMDProtocol called once, on any URL, at any moment of *)
(* the UI surface's life                                                    *)

LinkUrls ==
    {head \o tail : head \in {<<"ytmd">>, <<"ytmd", "://">>},
                    tail \in Seqs({"://", "/", "play", "a", "b"}, MaxUrlLen)}
        \cup { <<"ytmd", "://", "pause", "/", "abc123">>,
               <<"ytmd", "://", "play", "/", "abc123">>,
               <<"ytmd", "://", "play", "/", "abc123", "/", "def456">> }

InitLinksSpec ==
    /\ resourcesPath = <<"/", "res">>
    /\ InitLife
    /\ arg \in [kind : {"link"}, url : LinkUrls]
    /\ guardOut = <<>>
    /\ req = NoReq
    /\ InitLinks

DispatchArg ==
    /\ dispatches = <<>>
    /\ handleYTMDProtocol(arg.url)

NextLinks == DispatchArg \/ resumeSome \/ uiInitialize \/ uiBecomeReady

SpecLinks == InitLinksSpec /\ [][NextLinks]_vars

----------------------------------------------------------------------------
(* Spec: the whole service; requests and deep links arrive in any order *)

SpecRequests ==
    { [host |-> "main", pathname |-> <<"/">>],
      [host |-> "bogus", pathname |-> IndexPath],
      [host |-> "settings", pathname |-> <<"/", ".", ".", "/", "a">>],
      [host |-> "titlebar", pathname |-> <<"/", "assets", "/", "a">>] }

SpecUrls ==
    { <<"ytmd", "://", "play", "/", "a", "/", "b">>,
      <<"ytmd", "://", "play", "/", "a">>,
      <<"ytmd", "://", "pause", "/", "a">>,
      <<"ytmd">> }

Init ==
    /\ resourcesPath = <<"/", "res">>
    /\ InitLife
    /\ arg = NoArg
    /\ guardOut = <<>>
    /\ req = NoReq
    /\ InitLinks

Request == \E r \in SpecRequests : handleYTMDAppProtocol(r.host, r.pathname)

DeepLink ==
    /\ Len(dispatches) < MaxDispatches
    /\ \E u \in SpecUrls : handleYTMDProtocol(u)

Next ==
    \/ onInitializedCall
    \/ Request
    \/ DeepLink
    \/ resumeSome
    \/ uiInitialize
    \/ uiBecomeReady

Spec == Init /\ [][Next]_vars

\* the event loop runs the continuation of an await whose promise has
\* resolved; nothing obliges the UI surface to become initialized or ready
SpecFair == Spec /\ WF_vars(resumeSome)

----------------------------------------------------------------------------
(* Notions the properties are stated in *)

\* the segments of an absolute path string
SegsOf(p) == IF p = <<"/">> THEN <<>> ELSE Tail(Split(p, "/"))

\* p names a file or directory strictly below the directory r: r's segments
\* are a proper prefix of p's, and p has no empty, "." or ".." segment
IsStrictDescendant(p, r) ==
    LET ps == SegsOf(p)
        rs == SegsOf(r)
    IN  /\ PathIsAbsolute(p)
        /\ Len(ps) > Len(rs)
        /\ SubSeq(ps, 1, Len(rs)) = rs
        /\ \A i \in 1..Len(ps) : ps[i] \notin {<<>>, <<".">>, DotDot}

\* x is in the language of ^[/\\]+(assets[/\\]+)+$ : separators and `assets`
\* symbols only, a separator first and last, every `assets` between separators
IsReservedPrefix(x) ==
    /\ Len(x) >= 3
    /\ \A i \in 1..Len(x) : IsSep(x[i]) \/ x[i] = "assets"
    /\ IsSep(x[1]) /\ IsSep(x[Len(x)])
    /\ \E i \in 1..Len(x) : x[i] = "assets"
    /\ \A i \in 1..(Len(x) - 1) : ~(x[i] = "assets" /\ x[i + 1] = "assets")

\* p is what is left of a pathname after its whole reserved prefix: it begins
\* neither with a separator nor with a further `assets` segment
IsRemainder(p) ==
    /\ p = <<>> \/ ~IsSep(p[1])
    /\ ~(Len(p) >= 2 /\ p[1] = "assets" /\ IsSep(p[2]))

HasReservedPrefix(pathname) ==
    \E j \in 1..Len(pathname) : IsReservedPrefix(SubSeq(pathname, 1, j))

\* the index of the first "://" of url, 0 when it has none
SchemeSepAt(url) ==
    IF \E i \in 1..Len(url) : url[i] = "://"
    THEN CHOOSE i \in 1..Len(url) : url[i] = "://" /\ \A j \in 1..(i - 1) : url[j] # "://"
    ELSE 0

\* what follows the first "://" of url
RemainderOf(url) == Drop(url, SchemeSepAt(url))

\* the verb segment: the remainder up to its first "/"
VerbOf(url) ==
    LET r == RemainderOf(url)
    IN  IF \E i \in 1..Len(r) : r[i] = "/"
        THEN SubSeq(r, 1, (CHOOSE i \in 1..Len(r) :
                               r[i] = "/" /\ \A j \in 1..(i - 1) : r[j] # "/") - 1)
        ELSE r

\* a non-empty identifier: no "/" and no "://" in it
IsId(x) == x # <<>> /\ \A i \in 1..Len(x) : x[i] \notin {"/", "://"}

\* url is <scheme>://play/<v>/<p> (n = 2) or <scheme>://play/<v> (n = 1)
IsPlayUrl(url, n) ==
    /\ Len(url) >= 4
    /\ IsId(<<url[1]>>)
    /\ SubSeq(url, 2, 4) = <<"://", "play", "/">>
    /\ LET ids == Split(Drop(url, 4), "/")
       IN  Len(ids) = n /\ \A i \in 1..n : IsId(ids[i])

PlayId(url, i) == Split(Drop(url, 4), "/")[i]

\* the commands dispatch d has sent
SentBy(d) == {i \in 1..Len(sent) : sent[i].dispatch = d}

Handled == req.outcome # "none"

----------------------------------------------------------------------------
(* Properties of the router (SpecRouter) *)

\* C1: whenever the handler calls net.fetch, the path fetched is a strict
\* descendant of the root in effect for the request: the assets root when the
\* pathname carries the reserved prefix, the host's bundle root otherwise.
C1_SandboxSoundness ==
    (Handled /\ req.outcome = "fetch") =>
        LET root == IF HasReservedPrefix(req.pathname)
                    THEN PathResolve(resourcesPath, AssetsDir)
                    ELSE PathResolve(resourcesPath, BundleDir(req.host))
        IN  /\ req.host \in Hosts \/ HasReservedPrefix(req.pathname)
            /\ req.rootPath = root
            /\ IsStrictDescendant(fileURLToPath(req.fileUrlPath), root)

\* a fetch whose requested path climbs with ".." and comes back down
C1_Witness ==
    /\ Handled /\ req.outcome = "fetch"
    /\ \E i \in 1..Len(Split(req.desiredPath, "/")) :
           Split(req.desiredPath, "/")[i] = DotDot

\* C2 (as claimed): a request for an unknown host without the reserved prefix
\* is answered with the 403 Policy Violation response, raises no error and
\* fetches nothing.
C2_UnknownHostFailsClosed ==
    (Handled /\ req.host \notin Hosts /\ ~HasReservedPrefix(req.pathname)) =>
        /\ req.outcome = "response"
        /\ req.status = 403

\* C5: a pathname made of leading separators, n >= 1 separator-delimited
\* `assets` segments and a remainder p resolves to the assets root and p,
\* whatever n and the host are.
C5_AssetsRewrite ==
    Handled =>
        \A j \in 1..Len(req.pathname) :
            (/\ IsReservedPrefix(SubSeq(req.pathname, 1, j))
             /\ IsRemainder(Drop(req.pathname, j)))
            => /\ req.rootPath = PathResolve(resourcesPath, AssetsDir)
               /\ req.desiredPath = Drop(req.pathname, j)

\* a pathname with two `assets` segments and a remainder that is fetched
C5_Witness ==
    /\ Handled /\ req.outcome = "fetch"
    /\ \E j \in 1..Len(req.pathname) :
           /\ IsReservedPrefix(SubSeq(req.pathname, 1, j))
           /\ Cardinality({i \in 1..j : req.pathname[i] = "assets"}) >= 2
           /\ Drop(req.pathname, j) = req.desiredPath
           /\ req.desiredPath # <<>>

\* C6: the pathname "/" on a recognized host resolves to index.html under that
\* host's bundle root, passes the guard and is fetched; for every other
\* pathname the resolved path is a suffix of the pathname itself.
C6_IndexDefault ==
    Handled =>
        /\ (req.pathname = <<"/">> /\ req.host \in Hosts) =>
              /\ req.rootPath = PathResolve(resourcesPath, BundleDir(req.host))
              /\ req.desiredPath = <<"index", ".", "html">>
              /\ req.outcome = "fetch"
              /\ fileURLToPath(req.fileUrlPath) =
                     PathResolve(resourcesPath,
                                 BundleDir(req.host) \o <<"/", "index", ".", "html">>)
        /\ (req.pathname # <<"/">>) => IsSuffix(req.desiredPath, req.pathname)

C6_Witness == Handled /\ req.pathname = <<"/">> /\ req.host = "settings" /\ req.outcome = "fetch"

----------------------------------------------------------------------------
(* Properties of the guard (SpecGuard) *)

Guarded == guardOut # <<>>

\* C3 (as claimed): the three traversal candidates are rejected under every
\* absolute root.
C3_TraversalRejectedAnyRoot ==
    (Guarded /\ arg.candidate \in TraversalCandidates) => guardOut = <<FALSE>>

\* C3 (amended): the three traversal candidates are rejected under every
\* absolute root except the roots that contain the resolved target: "/" for
\* all three, "/etc" for "../../etc/passwd" and "/etc/passwd".
C3_TraversalRejected ==
    (Guarded /\ arg.candidate \in TraversalCandidates) =>
        /\ guardOut[1] <=>
               \/ arg.root = <<"/">>
               \/ arg.root = <<"/", "etc">> /\ arg.candidate # Cand_secret
        /\ guardOut[1] <=>
               IsStrictDescendant(PathResolve(arg.root, arg.candidate), arg.root)

C3_Witness ==
    /\ Guarded /\ arg.candidate = Cand_passwd
    /\ arg.root = <<"/", "a", "/", "etc">> /\ guardOut = <<FALSE>>

\* C4 (as claimed): every candidate whose resolved path is a strict descendant
\* of the root is accepted.
C4_BenignAccepted ==
    (Guarded /\ IsStrictDescendant(PathResolve(arg.root, arg.candidate), arg.root))
        => guardOut = <<TRUE>>

----------------------------------------------------------------------------
(* Properties of the deep-link dispatcher *)

\* C7: a link <scheme>://play/<v>/<p>, or <scheme>://play/<v>, dispatched while
\* the UI surface is initialized and ready sends exactly one "navigate"
\* command, with videoId = v and playlistId = p, or playlistId absent: none
\* while the dispatch is suspended (and then nothing but its own step keeps it
\* from sending), exactly that one once it has returned.
C7_HappyPath ==
    \A d \in 1..Len(dispatches) :
        LET r == dispatches[d]
            n == IF IsPlayUrl(r.url, 2) THEN 2 ELSE 1
        IN  (r.uiInitAtCall /\ r.uiReadyAtCall /\ IsPlayUrl(r.url, n)) =>
                /\ r.pc = "await" => (SentBy(d) = {} /\ uiReady)
                /\ r.pc = "done" =>
                       /\ Cardinality(SentBy(d)) = 1
                       /\ \A i \in SentBy(d) :
                              /\ sent[i].channel = "remoteControl:execute"
                              /\ sent[i].command = "navigate"
                              /\ sent[i].videoId = PlayId(r.url, 1)
                              /\ sent[i].playlistId =
                                     IF n = 2 THEN PlayId(r.url, 2) ELSE undefined

\* play/<v>/<p> with v # p, dispatched on a ready UI, has sent its command
C7_Witness ==
    \E d \in 1..Len(dispatches) :
        /\ dispatches[d].uiReadyAtCall
        /\ IsPlayUrl(dispatches[d].url, 2)
        /\ PlayId(dispatches[d].url, 1) # PlayId(dispatches[d].url, 2)
        /\ dispatches[d].pc = "done"
        /\ SentBy(d) # {}

\* C8: a play link dispatched while the UI surface reports not initialized
\* returns at once and its command is in no later state among the commands
\* sent, also after the UI surface has become initialized and ready.
C8_DeepLinkDrop ==
    \A d \in 1..Len(dispatches) :
        LET r == dispatches[d]
        IN  (VerbOf(r.url) = <<"play">> /\ ~r.uiInitAtCall) =>
                r.pc = "done" /\ SentBy(d) = {}

\* a play link dropped before the UI existed; the UI is ready now and has
\* received the command of a later dispatch
C8_Witness ==
    /\ uiReady
    /\ sent # <<>>
    /\ \E d \in 1..Len(dispatches) :
           /\ IsPlayUrl(dispatches[d].url, 1)
           /\ ~dispatches[d].uiInitAtCall

\* C9: a URI without scheme separator, with nothing after it, or whose verb
\* segment is not `play` returns at once: it never waits for readiness and
\* sends nothing, whatever the state of the UI surface.
C9_UnknownVerbNoop ==
    \A d \in 1..Len(dispatches) :
        LET r == dispatches[d]
        IN  (\/ SchemeSepAt(r.url) = 0
             \/ RemainderOf(r.url) = <<>>
             \/ VerbOf(r.url) # <<"play">>) =>
                r.pc = "done" /\ ~r.sawInitialized /\ SentBy(d) = {}

\* `pause/abc123` dispatched on a ready UI
C9_Witness ==
    \E d \in 1..Len(dispatches) :
        /\ dispatches[d].url = <<"ytmd", "://", "pause", "/", "abc123">>
        /\ dispatches[d].uiReadyAtCall
        /\ dispatches[d].pc = "done"

\* C10: every command sent belongs to a dispatch that saw the UI surface
\* initialized and whose readiness wait is over, and none is sent before the
\* UI surface has signalled ready.
C10_ReadinessOrdering ==
    \A i \in 1..Len(sent) :
        LET r == dispatches[sent[i].dispatch]
        IN  /\ r.uiInitAtCall /\ r.sawInitialized
            /\ r.pc = "done"
            /\ uiReady

\* a command sent by a dispatch that had to wait: the UI was initialized but
\* not ready when it was called
C10_Witness ==
    \E i \in 1..Len(sent) :
        /\ dispatches[sent[i].dispatch].uiInitAtCall
        /\ ~dispatches[sent[i].dispatch].uiReadyAtCall

----------------------------------------------------------------------------
(* Properties of the two pipelines together (Spec) *)

Suspended == {d \in 1..Len(dispatches) : dispatches[d].pc = "await"}

\* the outcome of each request of SpecRequests when it is handled alone
OutcomeAlone(host, pathname) ==
    IF host = "bogus" THEN "throw"
    ELSE IF host = "settings" THEN "response"
    ELSE "fetch"

\* C11: while a dispatch is suspended at the readiness wait, a further deep
\* link can be dispatched (the call is enabled and ends suspended or returned);
\* and the outcome of a resource request is the same whether or not a dispatch
\* was suspended when it was handled.
C11_NonBlockingWait ==
    /\ (Suspended # {} /\ Len(dispatches) < MaxDispatches) => ENABLED DeepLink
    /\ Handled => req.outcome = OutcomeAlone(req.host, req.pathname)
    /\ \A d \in 1..Len(dispatches) : dispatches[d].pc \in {"await", "done"}

\* a dispatch is still suspended; after it a second link was dispatched and
\* has returned, and a request was handled and fetched while it was suspended
C11_Witness ==
    /\ ~uiReady
    /\ \E d \in Suspended : \E e \in (d + 1)..Len(dispatches) : dispatches[e].pc = "done"
    /\ Handled /\ req.suspendedAtCall > 0 /\ req.outcome = "fetch"

----------------------------------------------------------------------------
(* Further properties of the router (SpecRouter) *)

\* the request has a root: a recognized host, or the reserved prefix
HasRoot == req.host \in Hosts \/ HasReservedPrefix(req.pathname)

\* the root in effect for the request
RootInEffect ==
    IF HasReservedPrefix(req.pathname)
    THEN PathResolve(resourcesPath, AssetsDir)
    ELSE PathResolve(resourcesPath, BundleDir(req.host))

\* C12: a request with a root whose resolved path is not strictly inside the
\* root (the empty path left of "/assets/" included) is not fetched; a request
\* with a root that is not fetched is answered, without an error, with status
\* 403, Content-Type text/html and body "Policy Violation", and no file URL is
\* built for it.
C12_RejectionPath ==
    (Handled /\ HasRoot) =>
        /\ ~IsStrictDescendant(PathResolve(RootInEffect, req.desiredPath), RootInEffect)
               => req.outcome = "response"
        /\ req.outcome # "fetch" => req.outcome = "response"
        /\ req.outcome = "response" =>
               /\ req.status = 403
               /\ req.contentType = "text/html"
               /\ req.body = "Policy Violation"
               /\ req.fileUrlPath = <<>>

\* "/assets/" on an unknown host: the path is empty after the rewrite
C12_Witness ==
    /\ Handled /\ req.host = "bogus" /\ req.pathname = <<"/", "assets", "/">>
    /\ req.desiredPath = <<>> /\ req.outcome = "response"

----------------------------------------------------------------------------
(* Further properties of the deep-link dispatcher *)

\* C13 (as claimed): every command sent carries a non-empty videoId; a play
\* link without a videoId segment, or with an empty one, sends nothing.
C13_VideoIdRequired ==
    \A i \in 1..Len(sent) :
        sent[i].videoId # <<>> /\ sent[i].videoId # undefined

\* C14: a dispatch suspended at the readiness wait sends its command, exactly
\* once, once the UI surface has signalled ready (the continuation being
\* scheduled fairly); as long as the UI surface has not signalled ready it
\* stays suspended, with no command sent and without returning.
C14_NoTimeout ==
    /\ \A d \in 1..MaxDispatches :
           (d <= Len(dispatches) /\ dispatches[d].pc = "await" /\ uiReady)
               ~> (d <= Len(dispatches) /\ dispatches[d].pc = "done"
                      /\ Cardinality(SentBy(d)) = 1)
    /\ [][\A d \in 1..Len(dispatches) :
              /\ (dispatches[d].pc = "await" /\ ~uiReady') =>
                     (dispatches'[d].pc = "await" /\ SentBy(d)' = {})
              /\ dispatches[d].pc = "done" =>
                     (dispatches'[d].pc = "done" /\ SentBy(d)' = SentBy(d))]_vars

\* a dispatch that found the UI initialized but not ready, waited, and has
\* sent its one command
C14_Witness ==
    \E d \in 1..Len(dispatches) :
        /\ dispatches[d].sawInitialized /\ ~dispatches[d].uiReadyAtCall
        /\ dispatches[d].pc = "done"
        /\ Cardinality(SentBy(d)) = 1

\* C15: the first onInitialized turns `initialized` from false to true and
\* registers the internal-scheme handler once; every later onInitialized call
\* throws, leaves `initialized` true and registers nothing (neither the handler
\* nor the default protocol client) again; `initialized` never returns to false.
C15_DoubleInitGuard ==
    /\ [](/\ handleCalls = (IF initialized THEN 1 ELSE 0)
          /\ setDefaultCalls <= handleCalls
          /\ initThrew => initialized)
    /\ [][/\ initialized => initialized'
          /\ (~initialized /\ initialized') =>
                 (handleCalls' = handleCalls + 1 /\ ~initThrew')
          /\ initialized =>
                 /\ handleCalls' = handleCalls
                 /\ setDefaultCalls' = setDefaultCalls
                 /\ isDefaultClient' = isDefaultClient
          /\ (initialized /\ onInitializedCall) => initThrew']_vars

\* a second onInitialized call has been made and has thrown
C15_Witness ==
    initThrew /\ initialized /\ handleCalls = 1

\* C16: whenever a file under the shared assets root is fetched, the pathname
\* of the request carried the reserved assets prefix; a request whose host is
\* "assets" and whose pathname has no reserved prefix never ends in a fetch.
C16_AssetsOnlyViaRewrite ==
    Handled =>
        /\ (/\ req.outcome = "fetch"
            /\ IsStrictDescendant(fileURLToPath(req.fileUrlPath),
                                  PathResolve(resourcesPath, AssetsDir)))
               => HasReservedPrefix(req.pathname)
        /\ (req.host = "assets" /\ ~HasReservedPrefix(req.pathname))
               => req.outcome # "fetch"

\* a file of the shared assets root fetched for the host "assets", through the
\* reserved prefix
C16_Witness ==
    /\ Handled /\ req.host = "assets" /\ req.outcome = "fetch"
    /\ req.pathname = <<"/", "assets", "/", "a">>
    /\ IsStrictDescendant(fileURLToPath(req.fileUrlPath),
                          PathResolve(resourcesPath, AssetsDir))

\* C17 (as claimed): for every host, recognized or not, a pathname made of a
\* reserved assets prefix and a non-empty remainder that stays inside the
\* shared assets root is resolved against that root and fetched, not answered
\* with 403.
C17_RewriteOverridesHost ==
    Handled =>
        \A j \in 1..Len(req.pathname) :
            LET rest   == Drop(req.pathname, j)
                root   == PathResolve(resourcesPath, AssetsDir)
                target == PathResolve(root, rest)
            IN  (/\ IsReservedPrefix(SubSeq(req.pathname, 1, j))
                 /\ IsRemainder(rest) /\ rest # <<>>
                 /\ IsStrictDescendant(target, root))
                    => /\ req.outcome = "fetch"
                       /\ req.rootPath = root
                       /\ fileURLToPath(req.fileUrlPath) = target

\* C18: handling a resource request sends no navigation command and changes
\* neither `initialized` nor the UI surface's state; dispatching a deep link
\* (its start and its continuation) invokes no file fetch and does not change
\* `initialized`; so under any interleaving a request's outcome is the one
\* its host and pathname alone determine, and a dispatch's command the one
\* its url and the UI state it met alone determine.
C18_PipelineIndependence ==
    /\ [][/\ req' # req =>
                 /\ sent' = sent /\ dispatches' = dispatches
                 /\ initialized' = initialized
                 /\ uiInitialized' = uiInitialized /\ uiReady' = uiReady
          /\ (dispatches' # dispatches \/ sent' # sent) =>
                 (req' = req /\ initialized' = initialized)]_vars
    /\ [](Handled =>
              [req EXCEPT !.suspendedAtCall = 0] = routeRequest(req.host, req.pathname))
    /\ [](\A d \in 1..Len(dispatches) :
              /\ [dispatches[d] EXCEPT !.pc = "await"] =
                     [startDispatch(dispatches[d].url, dispatches[d].uiInitAtCall,
                                    dispatches[d].uiReadyAtCall) EXCEPT !.pc = "await"]
              /\ \A i \in SentBy(d) :
                     /\ dispatches[d].sawInitialized
                     /\ sent[i].videoId = parseYTMD(dispatches[d].url).videoId
                     /\ sent[i].playlistId = parseYTMD(dispatches[d].url).playlistId)

\* a request and a deep link have both been handled: a file fetched after a
\* command was sent, with `initialized` still true
C18_Witness ==
    /\ Handled /\ req.outcome = "fetch" /\ req.suspendedAtCall = 0
    /\ sent # <<>> /\ Len(dispatches) = MaxDispatches
    /\ initialized /\ ~initThrew

====
